---- MODULE Spec2Model ----
(***************************************************************************)
(* Model of the debt ledger of controle_divida.py (ControleDividaApp) and  *)
(* of its persistence layer persistence.py.                                *)
(*                                                                         *)
(* Money is counted in thousandths of a real (integers; 10 make a centavo): *)
(* round(x, 2) gives whole centavos, but the amount the user types is      *)
(* stored as float(text) gives it, fractions of a centavo included.  The   *)
(* monthly rate is counted in percent (taxa = 1 stands for the float 0.01).*)
(***************************************************************************)
EXTENDS Integers, Sequences, FiniteSets, TLC

VARIABLES
    fase,             \* "novo": before ControleDividaApp.__init__ ran; "pronto": after;
                      \* "salvando": registrar_pagamento is about to send its POST
    em_envio,         \* registro of registrar_pagamento, built and not yet appended
    config_local,     \* CONFIG of controle_divida.py: what config.json gave
    divida_inicial,   \* self.divida_inicial
    taxa,             \* self.taxa
    registros,        \* self.registros
    total_pago,       \* self.total_pago
    saldo_restante,   \* self.saldo_restante
    modo_online,      \* self.modo_online
    servidor,         \* the /registros collection of the record store, in file order
    servidor_config,  \* the /config collection of the record store
    ui,               \* the last handler run, its input amount and the dialog it showed
    chamadas,         \* HTTP requests the last handler issued, counted by method
    limpeza,          \* what the last delete_todos_registros counted: records, failures
    falhas            \* handler runs so far in which the network or the store failed

vars == <<fase, em_envio, config_local, divida_inicial, taxa, registros, total_pago,
          saldo_restante, modo_online, servidor, servidor_config, ui, chamadas,
          limpeza, falhas>>

----------------------------------------------------------------------------
(* Bounds of the model *)

\* longest ledger explored
MaxRegistros == 3

\* most handler runs of one session in which a request fails
MaxFalhas == 1

(* Program constants *)

MAX_RETRIES == 3

\* "server_id" key absent from a local entry / no id
SemId == 0

\* the /config collection holds no record
SemConfig == [divida_inicial |-> 0, taxa |-> 0]

\* what read_config returns when /config holds no record: R$ 50.000,00 at 1%
ConfigFallback == [divida_inicial |-> 50000000, taxa |-> 1]

\* what config.json may hold: R$ 100,00 at 1%
ConfigsLocais == {[divida_inicial |-> 100000, taxa |-> 1]}

\* what the store's /config collection may hold: nothing, or R$ 200,00 at 4%
ConfigsServidor == {SemConfig, [divida_inicial |-> 200000, taxa |-> 4]}

\* amounts typed by the user (already positive): R$ 60,00 and R$ 1.000,00
Valores == {60000, 1000000}

StatusSet == {"Pago", "Pendente"}

\* outcomes of one HTTP request, as _fazer_requisicao classifies them
Falhas == {"http", "indisponivel", "fechou"}

Resultados == {"ok"} \cup Falhas

Max(a, b) == IF a >= b THEN a ELSE b

NenhumaChamada == [GET |-> 0, POST |-> 0, PATCH |-> 0, DELETE |-> 0]

\* the handler did not call delete_todos_registros, or its listing failed
SemLimpeza == [total |-> 0, erros |-> 0]

----------------------------------------------------------------------------
(* Money *)

\* n / d thousandths falls exactly between two centavos
Empate(n, d) == 2 * (n % (10 * d)) = 10 * d

(* Natural numbers of any size, as the digits of their notation in base  *)
(* 2^15, the lowest first; zeros may follow the highest digit that is not 0 *)

Base == 2^15

RECURSIVE Digitos15(_)
Digitos15(n) == IF n = 0 THEN <<>> ELSE <<n % Base>> \o Digitos15(n \div Base)

RECURSIVE Inteiro(_)
Inteiro(x) == IF x = <<>> THEN 0 ELSE Head(x) + Base * Inteiro(Tail(x))

Limb(x, i) == IF i \in DOMAIN x THEN x[i] ELSE 0

\* the binary digit i of x, the lowest being digit 1
Bit(x, i) ==
    IF i < 1 THEN 0 ELSE (Limb(x, 1 + ((i - 1) \div 15)) \div 2^((i - 1) % 15)) % 2

\* x * 2^k
Vezes2(x, k) ==
    [j \in 1..(Len(x) + (k \div 15) + 1) |->
        ((Limb(x, j - (k \div 15)) * 2^(k % 15)) % Base)
        + (Limb(x, j - (k \div 15) - 1) \div 2^(15 - (k % 15)))]

\* x \div 2^k
Por2(x, k) ==
    [j \in 1..(Len(x) - (k \div 15)) |->
        (Limb(x, j + (k \div 15)) \div 2^(k % 15))
        + ((Limb(x, j + (k \div 15) + 1) % 2^(k % 15)) * 2^(15 - (k % 15)))]

\* the number of binary digits of x up to its highest 1
Comprimento(x) ==
    IF \A i \in DOMAIN x : x[i] = 0 THEN 0
    ELSE 15 * ((CHOOSE i \in DOMAIN x :
                   x[i] # 0 /\ \A j \in (i + 1)..Len(x) : x[j] = 0) - 1)
         + (CHOOSE b \in 1..15 :
               \E i \in DOMAIN x :
                  /\ x[i] \div 2^(b - 1) = 1
                  /\ \A j \in (i + 1)..Len(x) : x[j] = 0)

\* x >= y
MaiorOuIgual(x, y) ==
    ~\E i \in DOMAIN y :
        /\ y[i] > Limb(x, i)
        /\ \A j \in (i + 1)..Max(Len(x), Len(y)) : Limb(x, j) = Limb(y, j)

RECURSIVE SomaDe(_, _, _, _)
\* x + y + vai, from digit i on
SomaDe(x, y, i, vai) ==
    IF i > Len(x) /\ i > Len(y) THEN (IF vai = 0 THEN <<>> ELSE <<vai>>)
    ELSE <<(Limb(x, i) + Limb(y, i) + vai) % Base>>
         \o SomaDe(x, y, i + 1, (Limb(x, i) + Limb(y, i) + vai) \div Base)

RECURSIVE DiferencaDe(_, _, _, _)
\* x - y - vem, from digit i on, for x >= y
DiferencaDe(x, y, i, vem) ==
    IF i > Len(x) THEN <<>>
    ELSE <<(Limb(x, i) - Limb(y, i) - vem) % Base>>
         \o DiferencaDe(x, y, i + 1, IF Limb(x, i) - Limb(y, i) - vem < 0 THEN 1 ELSE 0)

RECURSIVE VezesDigitoDe(_, _, _, _)
\* x * k + vai, from digit i of x on, for 0 <= k < Base
VezesDigitoDe(x, k, i, vai) ==
    IF i > Len(x) THEN (IF vai = 0 THEN <<>> ELSE <<vai>>)
    ELSE <<(x[i] * k + vai) % Base>>
         \o VezesDigitoDe(x, k, i + 1, (x[i] * k + vai) \div Base)

RECURSIVE ProdutoDe(_, _, _)
\* x times the digits of y from digit j on
ProdutoDe(x, y, j) ==
    IF j > Len(y) THEN <<>>
    ELSE SomaDe(VezesDigitoDe(x, y[j], 1, 0), <<0>> \o ProdutoDe(x, y, j + 1), 1, 0)

RECURSIVE QuocienteDe(_, _, _, _)
\* the remainder, and after it the digits of the quotient, of (resto, then the
\* digits of x from digit i down) by d, for 0 < d < 2^16
QuocienteDe(x, d, i, resto) ==
    IF i = 0 THEN <<resto>>
    ELSE Append(QuocienteDe(x, d, i - 1, (resto * Base + x[i]) % d),
                (resto * Base + x[i]) \div d)

\* the integer nearest to x / 2^k, the even one of two equally near; mais says
\* that x stands for a little more than x
Proximo(x, k, mais) ==
    IF /\ Bit(x, k) = 1
       /\ \/ mais
          \/ \E i \in 1..(k - 1) : Bit(x, i) = 1
          \/ Bit(x, k + 1) = 1
    THEN SomaDe(Por2(x, k), <<1>>, 1, 0)
    ELSE Por2(x, k)

(* Python floats: s * m / 2^e with s the sign and m a natural number of at *)
(* most Mantissa binary digits                                             *)

Mantissa == 53

\* the float nearest to s * x / 2^e (a little more than x, if mais), the one
\* of even m of two equally near
Arredondar(s, x, e, mais) ==
    IF Comprimento(x) <= Mantissa THEN [s |-> s, m |-> x, e |-> e]
    ELSE [s |-> s, m |-> Proximo(x, Comprimento(x) - Mantissa, mais),
          e |-> e - (Comprimento(x) - Mantissa)]

LiteralDe(s, rq) == Arredondar(s, Tail(rq), 64, Head(rq) # 0)

LiteralEm(s, x, d) == LiteralDe(s, QuocienteDe(x, d, Len(x), 0))

\* the float a decimal literal of value n / d denotes, the one nearest to it:
\* 0 < d <= 2^10
Literal(n, d) ==
    IF n = 0 THEN [s |-> 1, m |-> <<>>, e |-> 0]
    ELSE LiteralEm(IF n < 0 THEN -1 ELSE 1,
                   Vezes2(Digitos15(IF n < 0 THEN -n ELSE n), 64), d)

\* x * y
Vezes(x, y) == Arredondar(x.s * y.s, ProdutoDe(x.m, y.m, 1), x.e + y.e, FALSE)

\* sx * mx / 2^e + sy * my / 2^e
MaisDe(sx, mx, sy, my, e) ==
    Arredondar(IF sx = sy \/ MaiorOuIgual(mx, my) THEN sx ELSE sy,
               IF sx = sy THEN SomaDe(mx, my, 1, 0)
               ELSE IF MaiorOuIgual(mx, my) THEN DiferencaDe(mx, my, 1, 0)
               ELSE DiferencaDe(my, mx, 1, 0),
               e, FALSE)

\* x + y
Mais(x, y) ==
    MaisDe(x.s, Vezes2(x.m, Max(x.e, y.e) - x.e),
           y.s, Vezes2(y.m, Max(x.e, y.e) - y.e), Max(x.e, y.e))

\* round(x, 2) in thousandths: the whole centavo nearest to the float x, the
\* even one of two equally near
Round2(x) ==
    x.s * 10 * Inteiro(Proximo(VezesDigitoDe(x.m, 100, 1, 0), x.e, FALSE))

\* round(a + b, 2) of the floats of a and b thousandths. The sum of the floats
\* is off a + b by less than any distance between a + b and a half centavo
\* other than 0, so that only then the floats decide
Round2DaSoma(a, b) ==
    IF Empate(a + b, 1) THEN Round2(Mais(Literal(a, 1000), Literal(b, 1000)))
    ELSE 10 * ((a + b + 5) \div 10)

\* Juros with the monthly rate mistaken for a yearly one
JurosAnual(saldo_anterior, tx) == 10 * ((saldo_anterior * tx + 6000) \div 12000)

\* round(saldo_anterior * self.taxa, 2), tx being the rate in percent
Juros(saldo_anterior, tx) ==
    IF Empate(saldo_anterior * tx, 100)
    THEN Round2(Vezes(Literal(saldo_anterior, 1000), Literal(tx, 100)))
    ELSE 10 * ((saldo_anterior * tx + 500) \div 1000)

----------------------------------------------------------------------------
(* Ledger arithmetic *)

\* CalculoDoMes whose overpayment adjustment takes the interest out of the
\* amortization: the entry amortizes saldo_anterior - juros and records
\* saldo_anterior as paid
CalculoQuitaSemJuros(saldo_anterior, tx, valor_pago) ==
    LET Ajuste(juros, amortizacao, novo_saldo) ==
            IF novo_saldo < 0
            THEN [valor |-> saldo_anterior, juros |-> juros,
                  amort |-> saldo_anterior - juros, saldo |-> 0]
            ELSE [valor |-> valor_pago, juros |-> juros,
                  amort |-> amortizacao, saldo |-> novo_saldo]
        NovoSaldo(juros, amortizacao) ==
            Ajuste(juros, amortizacao, Round2DaSoma(saldo_anterior, -amortizacao))
        Amortizacao(juros) == NovoSaldo(juros, Round2DaSoma(valor_pago, -juros))
    IN  Amortizacao(Juros(saldo_anterior, tx))

\* registrar_pagamento, "Calculo do mes": interest, amortization, new balance
\* and the overpayment adjustment, each computed once from the ones before it
CalculoDoMes(saldo_anterior, tx, valor_pago) ==
    LET Ajuste(juros, amortizacao, novo_saldo) ==
            IF novo_saldo < 0
            THEN [valor |-> Round2DaSoma(valor_pago, novo_saldo), juros |-> juros,
                  amort |-> Round2DaSoma(amortizacao, novo_saldo), saldo |-> 0]
            ELSE [valor |-> valor_pago, juros |-> juros,
                  amort |-> amortizacao, saldo |-> novo_saldo]
        NovoSaldo(juros, amortizacao) ==
            Ajuste(juros, amortizacao, Round2DaSoma(saldo_anterior, -amortizacao))
        Amortizacao(juros) == NovoSaldo(juros, Round2DaSoma(valor_pago, -juros))
    IN  Amortizacao(Juros(saldo_anterior, tx))

\* the body of the loop of _recalcular_agregado_e_table for one entry
PassoRecalculo(saldo_anterior, tx, valor) ==
    LET Ajuste(juros, amort, novo_saldo) ==
            IF novo_saldo < 0
            THEN [valor |-> Round2DaSoma(valor, novo_saldo), juros |-> juros,
                  amort |-> Round2DaSoma(amort, novo_saldo), saldo |-> 0]
            ELSE [valor |-> valor, juros |-> juros,
                  amort |-> amort, saldo |-> novo_saldo]
        NovoSaldo(juros, amort) ==
            Ajuste(juros, amort, Round2DaSoma(saldo_anterior, -amort))
        Amort(juros) == NovoSaldo(juros, Round2DaSoma(valor, -juros))
    IN  Amort(Juros(saldo_anterior, tx))

\* self.total_pago = round(self.total_pago + max(0.0, reg["valor"]), 2)
SomaTotal(total, valor) == Round2DaSoma(total, Max(0, valor))

RECURSIVE RecalcularDe(_, _, _, _, _, _)
RecalcularDe(regs, i, tx, total, saldo, acc) ==
    IF i > Len(regs)
    THEN [registros |-> acc, total_pago |-> total, saldo_restante |-> saldo]
    ELSE LET Seguinte(p) ==
                 RecalcularDe(regs, i + 1, tx, SomaTotal(total, p.valor), p.saldo,
                              Append(acc, [regs[i] EXCEPT !.mes = i,
                                                          !.valor = p.valor,
                                                          !.juros = p.juros,
                                                          !.amort = p.amort,
                                                          !.saldo = p.saldo]))
         IN  Seguinte(PassoRecalculo(saldo, tx, regs[i].valor))

\* _recalcular_agregado_e_table: replay every entry from the initial debt
Recalcular(regs, divida, tx) == RecalcularDe(regs, 1, tx, 0, divida, <<>>)

----------------------------------------------------------------------------
(* The record store (json-server) as the persistence layer sees it *)

Ids(srv) == {srv[k].id : k \in DOMAIN srv}

\* a record of /registros; legivel = FALSE stands for a "valor" that float()
\* cannot convert
RegistroRemoto(id, valor, d, legivel) ==
    [id |-> id, mes |-> d.mes, valor |-> valor, juros |-> d.juros,
     amort |-> d.amort, saldo |-> d.saldo, status |-> "Pago", legivel |-> legivel]

\* derived fields a stored record may carry: blank, or figures that follow
\* from no ledger
Zerado == [mes |-> 1, juros |-> 0, amort |-> 0, saldo |-> 0]

Adulterado == [mes |-> 7, juros |-> 9990, amort |-> -9990, saldo |-> -5000]

\* what the store holds when the session starts
ServidoresIniciais ==
    {<<>>,
     <<RegistroRemoto(1, 60000, Zerado, TRUE)>>,
     <<RegistroRemoto(1, 1000000, Zerado, TRUE), RegistroRemoto(2, 60000, Zerado, TRUE)>>,
     <<RegistroRemoto(2, 60000, Zerado, TRUE), RegistroRemoto(1, 1000000, Adulterado, TRUE)>>,
     <<RegistroRemoto(1, 60000, Adulterado, TRUE), RegistroRemoto(2, 0, Zerado, FALSE)>>}

\* the id the store gives a new record: one more than the largest it holds
NovoId(srv) ==
    IF srv = <<>> THEN 1
    ELSE 1 + (CHOOSE m \in Ids(srv) : \A x \in Ids(srv) : x <= m)


RECURSIVE OrdenarPorId(_)
\* registros_servidor.sort(key=lambda r: r.get("id", 0))
OrdenarPorId(s) ==
    IF s = <<>> THEN <<>>
    ELSE LET k == CHOOSE j \in DOMAIN s : \A m \in DOMAIN s : s[j].id <= s[m].id
             resto == [m \in 1..(Len(s) - 1) |-> IF m < k THEN s[m] ELSE s[m + 1]]
         IN  <<s[k]>> \o OrdenarPorId(resto)

RemoverId(srv, id) == SelectSeq(srv, LAMBDA r : r.id # id)

\* the local entry _carregar_registros_iniciais builds from a record of the store
ParaLocal(r) ==
    [mes |-> r.mes, valor |-> r.valor, juros |-> r.juros, amort |-> r.amort,
     saldo |-> r.saldo, status |-> r.status, server_id |-> r.id]

RECURSIVE CarregarDe(_, _, _)
\* the loop of _carregar_registros_iniciais: float() raises on the first record
\* it cannot convert, and the entries appended before it stay in self.registros
CarregarDe(lista, i, acc) ==
    IF i > Len(lista) THEN [registros |-> acc, falhou |-> FALSE]
    ELSE IF ~lista[i].legivel THEN [registros |-> acc, falhou |-> TRUE]
    ELSE CarregarDe(lista, i + 1, Append(acc, ParaLocal(lista[i])))

\* what one DELETE /registros/id attempt gives: the store answers 404 for an
\* id it does not hold
RespostaDelete(srv, id, r) == IF r = "ok" /\ id \notin Ids(srv) THEN "http" ELSE r

\* how one DELETE attempt may end: as any request, or "perdeu": the store
\* removed the record and the connection closed before its answer came, which
\* the client cannot tell from "fechou"
ResultadosDelete == Resultados \cup {"perdeu"}

\* the attempt ended with RemoteDisconnected
Fechada(r) == r \in {"fechou", "perdeu"}

\* the outcomes of the attempts of one delete_registro call: every attempt but
\* the last ends with the connection closed, and only the MAX_RETRIES-th
\* attempt may end so too
RoteirosDelete ==
    {s \in UNION {[1..n -> ResultadosDelete] : n \in 1..MAX_RETRIES} :
        /\ \A k \in 1..(Len(s) - 1) : Fechada(s[k])
        /\ Fechada(s[Len(s)]) => Len(s) = MAX_RETRIES}

\* what the attempts of one delete_registro call would get, were they all
\* made: the first succeeds, or it fails and the later ones end in any way
RoteirosInteiros ==
    {<<"ok">>} \cup {s \in [1..MAX_RETRIES -> ResultadosDelete] : s[1] # "ok"}

\* DeleteRegistroDe that tries again after a failure of any kind
RECURSIVE DeleteRepeteTudo(_, _, _, _)
DeleteRepeteTudo(srv, id, roteiro, tentativa) ==
    LET r == RespostaDelete(srv, id, roteiro[tentativa + 1])
        depois == IF r \in {"ok", "perdeu"} THEN RemoverId(srv, id) ELSE srv
    IN  IF r = "ok"
        THEN [servidor |-> depois, erro |-> "ok", tentativas |-> tentativa + 1]
        ELSE IF tentativa < MAX_RETRIES - 1
        THEN DeleteRepeteTudo(depois, id, roteiro, tentativa + 1)
        ELSE [servidor |-> depois, erro |-> IF Fechada(r) THEN "fechou" ELSE r,
              tentativas |-> tentativa + 1]

RECURSIVE DeleteRegistroDe(_, _, _, _)
DeleteRegistroDe(srv, id, roteiro, tentativa) ==
    LET r == RespostaDelete(srv, id, roteiro[tentativa + 1])
        depois == IF r \in {"ok", "perdeu"} THEN RemoverId(srv, id) ELSE srv
    IN  IF r = "ok"
        THEN [servidor |-> depois, erro |-> "ok", tentativas |-> tentativa + 1]
        ELSE IF Fechada(r) /\ tentativa < MAX_RETRIES - 1
        THEN DeleteRegistroDe(depois, id, roteiro, tentativa + 1)
        ELSE [servidor |-> depois, erro |-> IF Fechada(r) THEN "fechou" ELSE r,
              tentativas |-> tentativa + 1]

\* persistence.delete_registro
DeleteRegistro(srv, id, roteiro) == DeleteRegistroDe(srv, id, roteiro, 0)

\* DeleteTodosDe that leaves the loop at the first delete that fails
RECURSIVE DeleteTodosAteErro(_, _, _, _, _, _, _)
DeleteTodosAteErro(lista, i, srv, plano, n_erros, primeira, tentativas) ==
    IF i > Len(lista) \/ n_erros > 0
    THEN [servidor |-> srv, n_erros |-> n_erros, primeira |-> primeira,
          tentativas |-> tentativas]
    ELSE LET d == DeleteRegistro(srv, lista[i].id, plano[lista[i].id])
         IN  DeleteTodosAteErro(lista, i + 1, d.servidor, plano,
                                IF d.erro = "ok" THEN n_erros ELSE n_erros + 1,
                                IF d.erro # "ok" /\ n_erros = 0 THEN d.erro
                                ELSE primeira,
                                tentativas + d.tentativas)

RECURSIVE DeleteTodosDe(_, _, _, _, _, _, _)
\* the loop of persistence.delete_todos_registros over the listed records
DeleteTodosDe(lista, i, srv, plano, n_erros, primeira, tentativas) ==
    IF i > Len(lista)
    THEN [servidor |-> srv, n_erros |-> n_erros, primeira |-> primeira,
          tentativas |-> tentativas]
    ELSE LET d == DeleteRegistro(srv, lista[i].id, plano[lista[i].id])
         IN  DeleteTodosDe(lista, i + 1, d.servidor, plano,
                           IF d.erro = "ok" THEN n_erros ELSE n_erros + 1,
                           IF d.erro # "ok" /\ n_erros = 0 THEN d.erro ELSE primeira,
                           tentativas + d.tentativas)

\* DeleteTodosRegistros that raises for a failed listing only, however many
\* deletes fail
DeleteTodosSemErro(srv, res_lista, plano) ==
    IF res_lista # "ok"
    THEN [servidor |-> srv, erro |-> res_lista, n_erros |-> 0, total |-> 0,
          tentativas |-> 0]
    ELSE LET d == DeleteTodosDe(srv, 1, srv, plano, 0, "ok", 0)
         IN  [servidor |-> d.servidor, erro |-> "ok",
              n_erros |-> d.n_erros, total |-> Len(srv),
              tentativas |-> d.tentativas]

\* DeleteTodosRegistros that raises as soon as one delete failed
DeleteTodosExigente(srv, res_lista, plano) ==
    IF res_lista # "ok"
    THEN [servidor |-> srv, erro |-> res_lista, n_erros |-> 0, total |-> 0,
          tentativas |-> 0]
    ELSE LET d == DeleteTodosDe(srv, 1, srv, plano, 0, "ok", 0)
         IN  [servidor |-> d.servidor,
              erro |-> IF d.n_erros > 0 THEN d.primeira ELSE "ok",
              n_erros |-> d.n_erros, total |-> Len(srv),
              tentativas |-> d.tentativas]

\* persistence.delete_todos_registros: erro is "ok" when it returns, else the
\* class of the failure its PersistenceError names
DeleteTodosRegistros(srv, res_lista, plano) ==
    IF res_lista # "ok"
    THEN [servidor |-> srv, erro |-> res_lista, n_erros |-> 0, total |-> 0,
          tentativas |-> 0]
    ELSE LET d == DeleteTodosDe(srv, 1, srv, plano, 0, "ok", 0)
         IN  [servidor |-> d.servidor,
              erro |-> IF d.n_erros > 0 /\ ~(d.n_erros < Len(srv))
                       THEN d.primeira ELSE "ok",
              n_erros |-> d.n_erros, total |-> Len(srv),
              tentativas |-> d.tentativas]

\* ways one delete_registro call of a bulk deletion may fail: an HTTP error, no
\* connection, the connection closed at every attempt, or the record removed
\* with the answer lost and the retry answered 404
RoteirosComErro ==
    {<<"http">>, <<"indisponivel">>, <<"fechou", "fechou", "fechou">>,
     <<"perdeu", "ok">>}

\* ways it may succeed: at once, or at the second attempt
RoteirosSemErro == {<<"ok">>, <<"fechou", "ok">>}

\* the ways the deletes of one bulk deletion may go: the records of falham fail
\* one way, the others succeed one way
PlanosDelete(srv) ==
    {[i \in Ids(srv) |-> IF i \in falham THEN rf ELSE ro] :
        falham \in SUBSET Ids(srv), rf \in RoteirosComErro, ro \in RoteirosSemErro}

----------------------------------------------------------------------------
(* The session *)

Dialogo(op, msg, valor) == [op |-> op, msg |-> msg, valor |-> valor]

\* outcomes the environment may still choose for a request
Possiveis == IF falhas < MaxFalhas THEN Resultados ELSE {"ok"}

\* answers the environment may still give to verificar_conexao
Conexoes == IF falhas < MaxFalhas THEN BOOLEAN ELSE {TRUE}

\* every delete of a bulk deletion succeeds at once
PlanoSemFalha(srv) == [i \in Ids(srv) |-> <<"ok">>]

\* the handler run met a failing request or not
Contar(falhou) == falhas' = IF falhou THEN falhas + 1 ELSE falhas

Init ==
    /\ fase = "novo"
    /\ config_local \in ConfigsLocais
    /\ divida_inicial = config_local.divida_inicial
    /\ taxa = config_local.taxa
    /\ registros = <<>>
    /\ total_pago = 0
    /\ saldo_restante = divida_inicial
    /\ modo_online = FALSE
    /\ servidor \in ServidoresIniciais
    /\ servidor_config \in ConfigsServidor
    /\ ui = Dialogo("nenhum", "nenhum", 0)
    /\ chamadas = NenhumaChamada
    /\ limpeza = SemLimpeza
    /\ falhas = 0
    /\ em_envio = <<>>

\* persistence.read_config: the first record of /config, else its fallback
ReadConfig(cfg) ==
    IF cfg = SemConfig THEN ConfigFallback ELSE cfg

\* _carregar_registros_iniciais on the store srv, the debt and rate being cfg:
\* online says the probe succeeded, res_lista how the GET of the records ends.
\* The ledger is replayed only when the whole list was converted.
CarregarRegistrosIniciais(srv, cfg, online, res_lista) ==
    LET carga == IF online /\ res_lista = "ok"
                 THEN CarregarDe(OrdenarPorId(srv), 1, <<>>)
                 ELSE [registros |-> <<>>, falhou |-> online]
        novo == IF ~carga.falhou /\ carga.registros # <<>>
                THEN Recalcular(carga.registros, cfg.divida_inicial, cfg.taxa)
                ELSE [registros |-> carga.registros, total_pago |-> 0,
                      saldo_restante |-> cfg.divida_inicial]
    IN  [registros |-> novo.registros, total_pago |-> novo.total_pago,
         saldo_restante |-> novo.saldo_restante, falhou |-> carga.falhou]

\* ControleDividaApp.__init__: _verificar_servidor, then
\* _carregar_registros_iniciais.  conecta is what verificar_conexao answers,
\* res_config and res_lista how the two GET requests after it end.
Iniciar(conecta, res_config, res_lista) ==
    /\ fase = "novo"
    /\ fase' = "pronto"
    /\ conecta \/ (res_config = "ok" /\ res_lista = "ok")
    /\ LET cfg == IF conecta /\ res_config = "ok"
                  THEN ReadConfig(servidor_config) ELSE config_local
           novo == CarregarRegistrosIniciais(servidor, cfg, conecta, res_lista)
       IN  /\ divida_inicial' = cfg.divida_inicial
           /\ taxa' = cfg.taxa
           /\ registros' = novo.registros
           /\ total_pago' = novo.total_pago
           /\ saldo_restante' = novo.saldo_restante
           /\ modo_online' = (conecta /\ ~novo.falhou)
           /\ ui' = Dialogo("iniciar", IF novo.falhou THEN "aviso" ELSE "ok", 0)
           /\ chamadas' = [NenhumaChamada EXCEPT !.GET = IF conecta THEN 3 ELSE 1]
           /\ Contar(~conecta \/ res_config # "ok" \/ res_lista # "ok")
    /\ limpeza' = SemLimpeza
    /\ UNCHANGED <<em_envio, config_local, servidor, servidor_config>>

\* self.total_pago = round(self.total_pago + max(0.0, valor_pago), 2)
TotalAposPagamento(total, valor_pago) == Round2DaSoma(total, Max(0, valor_pago))

\* Quitada that lets a balance of exactly zero through
QuitadaSoNegativa(saldo) == saldo < 0

\* the guard "A divida ja foi quitada" of registrar_pagamento
Quitada(saldo) == saldo <= 0

\* RegistrarPagamento that treats a failed POST as fatal: it shows an error and
\* leaves the ledger and the aggregates as they were
RegistrarSoSeSalvar(valor_pago, status, res) ==
    /\ fase = "pronto"
    /\ IF Quitada(saldo_restante)
       THEN /\ res = "ok"
            /\ ui' = Dialogo("registrar", "quitada", valor_pago)
            /\ chamadas' = NenhumaChamada
            /\ UNCHANGED <<registros, total_pago, saldo_restante, servidor, falhas>>
       ELSE /\ Len(registros) < MaxRegistros
            /\ modo_online \/ res = "ok"
            /\ LET c == CalculoDoMes(saldo_restante, taxa, valor_pago)
                   salvo == modo_online /\ res = "ok"
                   registro == [mes |-> Len(registros) + 1, valor |-> c.valor,
                                juros |-> c.juros, amort |-> c.amort,
                                saldo |-> c.saldo, status |-> status,
                                server_id |-> IF salvo THEN NovoId(servidor)
                                              ELSE SemId]
               IN  IF modo_online /\ ~salvo
                   THEN /\ ui' = Dialogo("registrar", "erro", valor_pago)
                        /\ UNCHANGED <<registros, total_pago, saldo_restante,
                                       servidor>>
                        /\ chamadas' = [NenhumaChamada EXCEPT !.POST = 1]
                        /\ Contar(TRUE)
                   ELSE /\ total_pago' = TotalAposPagamento(total_pago, c.valor)
                        /\ saldo_restante' = c.saldo
                        /\ registros' = Append(registros, registro)
                        /\ servidor' =
                             IF salvo
                             THEN Append(servidor,
                                         [id |-> registro.server_id,
                                          mes |-> registro.mes,
                                          valor |-> c.valor, juros |-> c.juros,
                                          amort |-> c.amort, saldo |-> c.saldo,
                                          status |-> status, legivel |-> TRUE])
                             ELSE servidor
                        /\ ui' = Dialogo("registrar", "ok", valor_pago)
                        /\ chamadas' = [NenhumaChamada EXCEPT
                                          !.POST = IF modo_online THEN 1 ELSE 0]
                        /\ Contar(FALSE)
    /\ limpeza' = SemLimpeza
    /\ UNCHANGED <<fase, em_envio, config_local, divida_inicial, taxa, modo_online,
                   servidor_config>>

\* registrar_pagamento with a valid amount and date; res is how the POST ends
RegistrarPagamento(valor_pago, status, res) ==
    /\ fase = "pronto"
    /\ IF Quitada(saldo_restante)
       THEN /\ res = "ok"
            /\ ui' = Dialogo("registrar", "quitada", valor_pago)
            /\ chamadas' = NenhumaChamada
            /\ UNCHANGED <<registros, total_pago, saldo_restante, servidor, falhas>>
       ELSE /\ Len(registros) < MaxRegistros
            /\ modo_online \/ res = "ok"
            /\ LET c == CalculoDoMes(saldo_restante, taxa, valor_pago)
                   salvo == modo_online /\ res = "ok"
                   registro == [mes |-> Len(registros) + 1, valor |-> c.valor,
                                juros |-> c.juros, amort |-> c.amort,
                                saldo |-> c.saldo, status |-> status,
                                server_id |-> IF salvo THEN NovoId(servidor)
                                              ELSE SemId]
               IN  /\ total_pago' = TotalAposPagamento(total_pago, c.valor)
                   /\ saldo_restante' = c.saldo
                   /\ registros' = Append(registros, registro)
                   /\ servidor' =
                        IF salvo
                        THEN Append(servidor,
                                    [id |-> registro.server_id, mes |-> registro.mes,
                                     valor |-> c.valor, juros |-> c.juros,
                                     amort |-> c.amort, saldo |-> c.saldo,
                                     status |-> status, legivel |-> TRUE])
                        ELSE servidor
                   /\ ui' = Dialogo("registrar",
                                    IF modo_online /\ ~salvo THEN "aviso" ELSE "ok",
                                    valor_pago)
                   /\ chamadas' = [NenhumaChamada EXCEPT
                                     !.POST = IF modo_online THEN 1 ELSE 0]
                   /\ Contar(res # "ok")
    /\ limpeza' = SemLimpeza
    /\ UNCHANGED <<fase, em_envio, config_local, divida_inicial, taxa, modo_online,
                   servidor_config>>

\* registrar_pagamento up to the point where it is about to save: the month
\* is computed, both aggregates are updated and registro is built
PrepararRegistro(valor_pago, status) ==
    /\ fase = "pronto"
    /\ IF Quitada(saldo_restante)
       THEN /\ ui' = Dialogo("registrar", "quitada", valor_pago)
            /\ UNCHANGED <<fase, em_envio, total_pago, saldo_restante>>
       ELSE /\ Len(registros) < MaxRegistros
            /\ LET c == CalculoDoMes(saldo_restante, taxa, valor_pago)
               IN  /\ total_pago' = TotalAposPagamento(total_pago, c.valor)
                   /\ saldo_restante' = c.saldo
                   /\ em_envio' = <<[mes |-> Len(registros) + 1,
                                     valor |-> c.valor, juros |-> c.juros,
                                     amort |-> c.amort, saldo |-> c.saldo,
                                     status |-> status, server_id |-> SemId]>>
            /\ fase' = "salvando"
            /\ ui' = Dialogo("registrar", "salvando", valor_pago)
    /\ chamadas' = NenhumaChamada
    /\ limpeza' = SemLimpeza
    /\ UNCHANGED <<config_local, divida_inicial, taxa, registros, modo_online,
                   servidor, servidor_config, falhas>>

\* the rest of registrar_pagamento: the POST, which ends as res says, and
\* then the append of registro to the ledger
SalvarRegistro(res) ==
    /\ fase = "salvando"
    /\ modo_online \/ res = "ok"
    /\ LET salvo == modo_online /\ res = "ok"
           registro == [em_envio[1] EXCEPT
                          !.server_id = IF salvo THEN NovoId(servidor) ELSE SemId]
       IN  /\ registros' = Append(registros, registro)
           /\ servidor' =
                IF salvo
                THEN Append(servidor,
                            [id |-> registro.server_id, mes |-> registro.mes,
                             valor |-> registro.valor, juros |-> registro.juros,
                             amort |-> registro.amort, saldo |-> registro.saldo,
                             status |-> registro.status, legivel |-> TRUE])
                ELSE servidor
           /\ ui' = Dialogo("registrar",
                            IF modo_online /\ ~salvo THEN "aviso" ELSE "ok",
                            ui.valor)
           /\ chamadas' = [NenhumaChamada EXCEPT
                             !.POST = IF modo_online THEN 1 ELSE 0]
           /\ Contar(res # "ok")
    /\ fase' = "pronto"
    /\ em_envio' = <<>>
    /\ limpeza' = SemLimpeza
    /\ UNCHANGED <<config_local, divida_inicial, taxa, total_pago,
                   saldo_restante, modo_online, servidor_config>>

Alternado(status) == IF status = "Pago" THEN "Pendente" ELSE "Pago"

\* AlternarStatus that keeps the old status when the PATCH fails
AlternarSoSeSalvar(idx, res) ==
    /\ fase = "pronto"
    /\ idx \in 1..Len(registros)
    /\ LET novo == Alternado(registros[idx].status)
           envia == modo_online /\ registros[idx].server_id # SemId
           id == registros[idx].server_id
           feito == envia /\ res = "ok" /\ id \in Ids(servidor)
       IN  /\ envia \/ res = "ok"
           /\ registros' = IF envia /\ ~feito THEN registros
                           ELSE [registros EXCEPT ![idx].status = novo]
           /\ servidor' =
                IF feito
                THEN [k \in DOMAIN servidor |->
                        IF servidor[k].id = id
                        THEN [servidor[k] EXCEPT !.status = novo]
                        ELSE servidor[k]]
                ELSE servidor
           /\ ui' = Dialogo("alternar", IF envia /\ ~feito THEN "aviso" ELSE "ok", 0)
           /\ chamadas' = [NenhumaChamada EXCEPT !.PATCH = IF envia THEN 1 ELSE 0]
           /\ Contar(res # "ok")
    /\ limpeza' = SemLimpeza
    /\ UNCHANGED <<fase, em_envio, config_local, divida_inicial, taxa, total_pago,
                   saldo_restante, modo_online, servidor_config>>

\* alternar_status_selecao on the selected row idx; res is how the PATCH ends.
\* With no row selected the handler returns at once and nothing changes.
AlternarStatus(idx, res) ==
    /\ fase = "pronto"
    /\ idx \in 1..Len(registros)
    /\ LET novo == Alternado(registros[idx].status)
           envia == modo_online /\ registros[idx].server_id # SemId
           id == registros[idx].server_id
           feito == envia /\ res = "ok" /\ id \in Ids(servidor)
       IN  /\ envia \/ res = "ok"
           /\ registros' = [registros EXCEPT ![idx].status = novo]
           /\ servidor' =
                IF feito
                THEN [k \in DOMAIN servidor |->
                        IF servidor[k].id = id
                        THEN [servidor[k] EXCEPT !.status = novo]
                        ELSE servidor[k]]
                ELSE servidor
           /\ ui' = Dialogo("alternar", IF envia /\ ~feito THEN "aviso" ELSE "ok", 0)
           /\ chamadas' = [NenhumaChamada EXCEPT !.PATCH = IF envia THEN 1 ELSE 0]
           /\ Contar(res # "ok")
    /\ limpeza' = SemLimpeza
    /\ UNCHANGED <<fase, em_envio, config_local, divida_inicial, taxa, total_pago,
                   saldo_restante, modo_online, servidor_config>>

\* DesfazerUltimo that drops the last entry and leaves the aggregates and the
\* other entries as they were, without replaying the ledger
DesfazerSemRecalcular(roteiro) ==
    /\ fase = "pronto"
    /\ IF registros = <<>>
       THEN /\ roteiro = <<"ok">>
            /\ ui' = Dialogo("desfazer", "vazio", 0)
            /\ chamadas' = NenhumaChamada
            /\ UNCHANGED <<registros, total_pago, saldo_restante, servidor, falhas>>
       ELSE LET ultimo == registros[Len(registros)]
                envia == modo_online /\ ultimo.server_id # SemId
                d == IF envia
                     THEN DeleteRegistro(servidor, ultimo.server_id, roteiro)
                     ELSE [servidor |-> servidor, erro |-> "ok", tentativas |-> 0]
            IN  /\ envia \/ roteiro = <<"ok">>
                /\ registros' = SubSeq(registros, 1, Len(registros) - 1)
                /\ servidor' = d.servidor
                /\ ui' = Dialogo("desfazer",
                                 IF d.erro # "ok" THEN "aviso" ELSE "ok", 0)
                /\ chamadas' = [NenhumaChamada EXCEPT !.DELETE = d.tentativas]
                /\ Contar(roteiro # <<"ok">>)
                /\ UNCHANGED <<total_pago, saldo_restante>>
    /\ limpeza' = SemLimpeza
    /\ UNCHANGED <<fase, em_envio, config_local, divida_inicial, taxa, modo_online,
                   servidor_config>>

\* DesfazerUltimo that sends the DELETE of an entry with a server_id also
\* when the session is offline
DesfazerSemOlharModo(roteiro) ==
    /\ fase = "pronto"
    /\ IF registros = <<>>
       THEN /\ roteiro = <<"ok">>
            /\ ui' = Dialogo("desfazer", "vazio", 0)
            /\ chamadas' = NenhumaChamada
            /\ UNCHANGED <<registros, total_pago, saldo_restante, servidor, falhas>>
       ELSE LET ultimo == registros[Len(registros)]
                restantes == SubSeq(registros, 1, Len(registros) - 1)
                envia == ultimo.server_id # SemId
                d == IF envia
                     THEN DeleteRegistro(servidor, ultimo.server_id, roteiro)
                     ELSE [servidor |-> servidor, erro |-> "ok", tentativas |-> 0]
                novo == Recalcular(restantes, divida_inicial, taxa)
            IN  /\ envia \/ roteiro = <<"ok">>
                /\ registros' = novo.registros
                /\ total_pago' = novo.total_pago
                /\ saldo_restante' = novo.saldo_restante
                /\ servidor' = d.servidor
                /\ ui' = Dialogo("desfazer",
                                 IF d.erro # "ok" THEN "aviso" ELSE "ok", 0)
                /\ chamadas' = [NenhumaChamada EXCEPT !.DELETE = d.tentativas]
                /\ Contar(roteiro # <<"ok">>)
    /\ limpeza' = SemLimpeza
    /\ UNCHANGED <<fase, em_envio, config_local, divida_inicial, taxa, modo_online,
                   servidor_config>>

\* desfazer_ultimo: roteiro is how the attempts of the DELETE end
DesfazerUltimo(roteiro) ==
    /\ fase = "pronto"
    /\ IF registros = <<>>
       THEN /\ roteiro = <<"ok">>
            /\ ui' = Dialogo("desfazer", "vazio", 0)
            /\ chamadas' = NenhumaChamada
            /\ UNCHANGED <<registros, total_pago, saldo_restante, servidor, falhas>>
       ELSE LET ultimo == registros[Len(registros)]
                restantes == SubSeq(registros, 1, Len(registros) - 1)
                envia == modo_online /\ ultimo.server_id # SemId
                d == IF envia
                     THEN DeleteRegistro(servidor, ultimo.server_id, roteiro)
                     ELSE [servidor |-> servidor, erro |-> "ok", tentativas |-> 0]
                novo == Recalcular(restantes, divida_inicial, taxa)
            IN  /\ envia \/ roteiro = <<"ok">>
                /\ registros' = novo.registros
                /\ total_pago' = novo.total_pago
                /\ saldo_restante' = novo.saldo_restante
                /\ servidor' = d.servidor
                /\ ui' = Dialogo("desfazer",
                                 IF d.erro # "ok" THEN "aviso" ELSE "ok", 0)
                /\ chamadas' = [NenhumaChamada EXCEPT !.DELETE = d.tentativas]
                /\ Contar(roteiro # <<"ok">>)
    /\ limpeza' = SemLimpeza
    /\ UNCHANGED <<fase, em_envio, config_local, divida_inicial, taxa, modo_online,
                   servidor_config>>

\* reiniciar, once the user confirmed (declined, the handler returns at once
\* and nothing changes); res_lista and plano are how the requests of
\* delete_todos_registros end
Reiniciar(res_lista, plano) ==
    /\ fase = "pronto"
    /\ modo_online \/ (res_lista = "ok" /\ plano = PlanoSemFalha(servidor))
    /\ LET d == IF modo_online
                THEN DeleteTodosRegistros(servidor, res_lista, plano)
                ELSE [servidor |-> servidor, erro |-> "ok", n_erros |-> 0,
                      total |-> 0, tentativas |-> 0]
       IN  /\ registros' = <<>>
           /\ total_pago' = 0
           /\ saldo_restante' = divida_inicial
           /\ servidor' = d.servidor
           /\ ui' = Dialogo("reiniciar", IF d.erro # "ok" THEN "aviso" ELSE "ok", 0)
           /\ chamadas' = [NenhumaChamada EXCEPT
                             !.GET = IF modo_online THEN 1 ELSE 0,
                             !.DELETE = d.tentativas]
           /\ limpeza' = [total |-> d.total, erros |-> d.n_erros]
           /\ Contar(res_lista # "ok" \/ plano # PlanoSemFalha(servidor))
    /\ UNCHANGED <<fase, em_envio, config_local, divida_inicial, taxa, modo_online,
                   servidor_config>>

\* limpar_historico classifies the PersistenceError by its text: "Servidor nao
\* esta disponivel" and "Servidor fechou a conexao" name a connection error
ErroDeConexao(erro) == erro \in {"indisponivel", "fechou"}

\* LimparHistorico that trusts modo_online and goes on to the deletion whatever
\* verificar_conexao answers
LimparSemSondar(conecta, res_lista, plano) ==
    /\ fase = "pronto"
    /\ (modo_online /\ conecta) \/ (res_lista = "ok" /\ plano = PlanoSemFalha(servidor))
    /\ modo_online \/ conecta
    /\ IF ~modo_online
       THEN /\ modo_online' = FALSE
            /\ ui' = Dialogo("limpar", "offline", 0)
            /\ chamadas' = NenhumaChamada
            /\ limpeza' = SemLimpeza
            /\ Contar(FALSE)
            /\ UNCHANGED <<registros, total_pago, saldo_restante, servidor>>
       ELSE LET d == DeleteTodosRegistros(servidor, res_lista, plano)
            IN  /\ servidor' = d.servidor
                /\ chamadas' = [NenhumaChamada EXCEPT !.GET = 2,
                                                      !.DELETE = d.tentativas]
                /\ limpeza' = [total |-> d.total, erros |-> d.n_erros]
                /\ Contar(~conecta \/ res_lista # "ok"
                          \/ plano # PlanoSemFalha(servidor))
                /\ IF d.erro = "ok"
                   THEN /\ registros' = <<>>
                        /\ total_pago' = 0
                        /\ saldo_restante' = divida_inicial
                        /\ ui' = Dialogo("limpar", "sucesso", 0)
                        /\ UNCHANGED modo_online
                   ELSE /\ modo_online' = ~ErroDeConexao(d.erro)
                        /\ ui' = Dialogo("limpar",
                                         IF ErroDeConexao(d.erro)
                                         THEN "erro_conexao" ELSE "erro", 0)
                        /\ UNCHANGED <<registros, total_pago, saldo_restante>>
    /\ UNCHANGED <<fase, em_envio, config_local, divida_inicial, taxa, servidor_config>>

\* LimparHistorico that probes the store also when offline and goes back
\* online when the probe succeeds
LimparReconecta(conecta, res_lista, plano) ==
    /\ fase = "pronto"
    /\ (modo_online /\ conecta) \/ (res_lista = "ok" /\ plano = PlanoSemFalha(servidor))
    /\ modo_online \/ conecta
    /\ IF ~modo_online \/ ~conecta
       THEN /\ modo_online' = conecta
            /\ ui' = Dialogo("limpar",
                             IF ~modo_online THEN "offline" ELSE "indisponivel", 0)
            /\ chamadas' = [NenhumaChamada EXCEPT
                              !.GET = IF modo_online THEN 1 ELSE 0]
            /\ limpeza' = SemLimpeza
            /\ Contar(modo_online /\ ~conecta)
            /\ UNCHANGED <<registros, total_pago, saldo_restante, servidor>>
       ELSE LET d == DeleteTodosRegistros(servidor, res_lista, plano)
            IN  /\ servidor' = d.servidor
                /\ chamadas' = [NenhumaChamada EXCEPT !.GET = 2,
                                                      !.DELETE = d.tentativas]
                /\ limpeza' = [total |-> d.total, erros |-> d.n_erros]
                /\ Contar(res_lista # "ok" \/ plano # PlanoSemFalha(servidor))
                /\ IF d.erro = "ok"
                   THEN /\ registros' = <<>>
                        /\ total_pago' = 0
                        /\ saldo_restante' = divida_inicial
                        /\ ui' = Dialogo("limpar", "sucesso", 0)
                        /\ UNCHANGED modo_online
                   ELSE /\ modo_online' = ~ErroDeConexao(d.erro)
                        /\ ui' = Dialogo("limpar",
                                         IF ErroDeConexao(d.erro)
                                         THEN "erro_conexao" ELSE "erro", 0)
                        /\ UNCHANGED <<registros, total_pago, saldo_restante>>
    /\ UNCHANGED <<fase, em_envio, config_local, divida_inicial, taxa, servidor_config>>

\* limpar_historico: conecta is what verificar_conexao answers.  The user
\* confirms (declined after a good probe, the handler returns and nothing changes).
LimparHistorico(conecta, res_lista, plano) ==
    /\ fase = "pronto"
    /\ (modo_online /\ conecta) \/ (res_lista = "ok" /\ plano = PlanoSemFalha(servidor))
    /\ modo_online \/ conecta
    /\ IF ~modo_online \/ ~conecta
       THEN /\ modo_online' = FALSE
            /\ ui' = Dialogo("limpar",
                             IF ~modo_online THEN "offline" ELSE "indisponivel", 0)
            /\ chamadas' = [NenhumaChamada EXCEPT
                              !.GET = IF modo_online THEN 1 ELSE 0]
            /\ limpeza' = SemLimpeza
            /\ Contar(modo_online /\ ~conecta)
            /\ UNCHANGED <<registros, total_pago, saldo_restante, servidor>>
       ELSE LET d == DeleteTodosRegistros(servidor, res_lista, plano)
            IN  /\ servidor' = d.servidor
                /\ chamadas' = [NenhumaChamada EXCEPT !.GET = 2,
                                                      !.DELETE = d.tentativas]
                /\ limpeza' = [total |-> d.total, erros |-> d.n_erros]
                /\ Contar(res_lista # "ok" \/ plano # PlanoSemFalha(servidor))
                /\ IF d.erro = "ok"
                   THEN /\ registros' = <<>>
                        /\ total_pago' = 0
                        /\ saldo_restante' = divida_inicial
                        /\ ui' = Dialogo("limpar", "sucesso", 0)
                        /\ UNCHANGED modo_online
                   ELSE /\ modo_online' = ~ErroDeConexao(d.erro)
                        /\ ui' = Dialogo("limpar",
                                         IF ErroDeConexao(d.erro)
                                         THEN "erro_conexao" ELSE "erro", 0)
                        /\ UNCHANGED <<registros, total_pago, saldo_restante>>
    /\ UNCHANGED <<fase, em_envio, config_local, divida_inicial, taxa, servidor_config>>

\* the plans the environment may still choose for a bulk deletion
Planos(ativo) ==
    IF ativo /\ falhas < MaxFalhas THEN PlanosDelete(servidor)
    ELSE {PlanoSemFalha(servidor)}

Next ==
    \/ \E conecta \in Conexoes, res_config, res_lista \in Possiveis :
          Iniciar(conecta, res_config, res_lista)
    \/ \E valor_pago \in Valores, status \in StatusSet, res \in Possiveis :
          RegistrarPagamento(valor_pago, status, res)
    \/ \E idx \in 1..Len(registros), res \in Possiveis : AlternarStatus(idx, res)
    \/ \E roteiro \in {r \in RoteirosDelete : r = <<"ok">> \/ falhas < MaxFalhas} :
          DesfazerUltimo(roteiro)
    \/ \E res_lista \in Possiveis :
          \E plano \in Planos(modo_online /\ res_lista = "ok") :
             Reiniciar(res_lista, plano)
    \/ \E conecta \in Conexoes, res_lista \in Possiveis :
          \E plano \in Planos(modo_online /\ conecta /\ res_lista = "ok") :
             LimparHistorico(conecta, res_lista, plano)

Spec == Init /\ [][Next]_vars

----------------------------------------------------------------------------
(* Sessions in which no request fails, over more debts, rates and stores; *)
(* every payment is entered as "Pago"                                      *)

\* debts and rates the /config record may hold: R$ 100,00 at 1%,
\* R$ 50.000,00 at 1%, R$ 200,00 at 4%, R$ 1.000,00 at 12%
ConfigsLivro ==
    {[divida_inicial |-> 100000, taxa |-> 1],
     [divida_inicial |-> 50000000, taxa |-> 1],
     [divida_inicial |-> 200000, taxa |-> 4],
     [divida_inicial |-> 1000000, taxa |-> 12]}

\* amounts typed by the user, R$ 10,004, R$ 101,004 and R$ 1.125,125 among
\* them: "10,004" passes _parse_valor.  Of 1.125,125 on a debt of R$ 100,00
\* at 1% the amortization and the adjusted amount fall between two centavos
ValoresLivro == Valores \cup {10004, 101004, 1125125}

\* stores holding up to MaxRegistros payments, ids in order, every derived
\* field following from no ledger; and the store that lists the record of
\* id 2 (R$ 1.000,00) before that of id 1 (R$ 60,00)
ListasLivro ==
    UNION {{[k \in 1..n |-> RegistroRemoto(k, f[k], Adulterado, TRUE)] :
               f \in [1..n -> ValoresLivro]} : n \in 0..MaxRegistros}
    \cup {<<RegistroRemoto(2, 1000000, Adulterado, TRUE),
            RegistroRemoto(1, 60000, Adulterado, TRUE)>>}

InitLivro ==
    /\ fase = "novo"
    /\ config_local \in ConfigsLocais
    /\ divida_inicial = config_local.divida_inicial
    /\ taxa = config_local.taxa
    /\ registros = <<>>
    /\ total_pago = 0
    /\ saldo_restante = divida_inicial
    /\ modo_online = FALSE
    /\ servidor \in ListasLivro
    /\ servidor_config \in ConfigsLivro
    /\ ui = Dialogo("nenhum", "nenhum", 0)
    /\ chamadas = NenhumaChamada
    /\ limpeza = SemLimpeza
    /\ falhas = 0
    /\ em_envio = <<>>

NextLivro ==
    \/ Iniciar(TRUE, "ok", "ok")
    \/ \E valor_pago \in ValoresLivro : RegistrarPagamento(valor_pago, "Pago", "ok")
    \/ DesfazerUltimo(<<"ok">>)

SpecLivro == InitLivro /\ [][NextLivro]_vars

----------------------------------------------------------------------------
(* Sessions of startup, payments and undos, requests failing as in Spec; *)
(* every payment is entered as "Pago"                                    *)

NextPagamentos ==
    \/ \E conecta \in Conexoes, res_config, res_lista \in Possiveis :
          Iniciar(conecta, res_config, res_lista)
    \/ \E valor_pago \in Valores, res \in Possiveis :
          RegistrarPagamento(valor_pago, "Pago", res)
    \/ \E roteiro \in {r \in RoteirosDelete : r = <<"ok">> \/ falhas < MaxFalhas} :
          DesfazerUltimo(roteiro)

SpecPagamentos == Init /\ [][NextPagamentos]_vars

----------------------------------------------------------------------------
(* Sessions of startup, payments and clearing of the history, requests      *)
(* failing as in Spec; every payment is of R$ 60,00 and entered as "Pago"  *)

NextLimpeza ==
    \/ \E conecta \in Conexoes, res_config, res_lista \in Possiveis :
          Iniciar(conecta, res_config, res_lista)
    \/ \E res \in Possiveis : RegistrarPagamento(60000, "Pago", res)
    \/ \E conecta \in Conexoes, res_lista \in Possiveis :
          \E plano \in Planos(modo_online /\ conecta /\ res_lista = "ok") :
             LimparHistorico(conecta, res_lista, plano)

SpecLimpeza == Init /\ [][NextLimpeza]_vars

----------------------------------------------------------------------------
(* Sessions of startup, payments and changes of status, requests failing   *)
(* as in Spec; every payment is entered as "Pago"                          *)

NextAlternar ==
    \/ \E conecta \in Conexoes, res_config, res_lista \in Possiveis :
          Iniciar(conecta, res_config, res_lista)
    \/ \E valor_pago \in Valores, res \in Possiveis :
          RegistrarPagamento(valor_pago, "Pago", res)
    \/ \E idx \in 1..Len(registros), res \in Possiveis : AlternarStatus(idx, res)

SpecAlternar == Init /\ [][NextAlternar]_vars

----------------------------------------------------------------------------
(* Sessions of startup and payments, each payment in the two steps of      *)
(* registrar_pagamento: before its POST and from its POST on               *)

NextOrdem ==
    \/ \E conecta \in Conexoes, res_config, res_lista \in Possiveis :
          Iniciar(conecta, res_config, res_lista)
    \/ \E valor_pago \in Valores, status \in StatusSet :
          PrepararRegistro(valor_pago, status)
    \/ \E res \in Possiveis : SalvarRegistro(res)

SpecOrdem == Init /\ [][NextOrdem]_vars

----------------------------------------------------------------------------
(* Sessions of startup, payments of R$ 60,00 and undos in which only the   *)
(* DELETE of an undo may fail; the attempts after a failed one end in any  *)
(* way                                                                     *)

NextDesfazer ==
    \/ \E conecta \in Conexoes : Iniciar(conecta, "ok", "ok")
    \/ RegistrarPagamento(60000, "Pago", "ok")
    \/ \E roteiro \in {r \in RoteirosInteiros : r = <<"ok">> \/ falhas < MaxFalhas} :
          DesfazerUltimo(roteiro)

SpecDesfazer == Init /\ [][NextDesfazer]_vars

----------------------------------------------------------------------------
\* the plans of a bulk deletion whose deletes all go the same way
PlanosIguais(ativo) ==
    IF ativo /\ falhas < MaxFalhas
    THEN {[i \in Ids(servidor) |-> r] : r \in RoteirosComErro \cup RoteirosSemErro}
    ELSE {PlanoSemFalha(servidor)}

(* Sessions of all six handlers, requests failing as in Spec; every payment *)
(* is of R$ 60,00 and entered as "Pago", the row selected for a change of  *)
(* status is the first, and the deletes of a bulk deletion all go the same *)
(* way                                                                     *)

NextModo ==
    \/ \E conecta \in Conexoes, res_config, res_lista \in Possiveis :
          Iniciar(conecta, res_config, res_lista)
    \/ \E res \in Possiveis : RegistrarPagamento(60000, "Pago", res)
    \/ \E res \in Possiveis : AlternarStatus(1, res)
    \/ \E roteiro \in {r \in RoteirosDelete : r = <<"ok">> \/ falhas < MaxFalhas} :
          DesfazerUltimo(roteiro)
    \/ \E res_lista \in Possiveis :
          \E plano \in PlanosIguais(modo_online /\ res_lista = "ok") :
             Reiniciar(res_lista, plano)
    \/ \E conecta \in Conexoes, res_lista \in Possiveis :
          \E plano \in PlanosIguais(modo_online /\ conecta /\ res_lista = "ok") :
             LimparHistorico(conecta, res_lista, plano)

SpecModo == Init /\ [][NextModo]_vars

----------------------------------------------------------------------------
(* The amount and the date as the user types them.  A text is the tuple of  *)
(* its characters.                                                          *)

MaxDecimais == 3

Digitos == {"0", "1", "2", "3", "4", "5", "6", "7", "8", "9"}

Digito(c) ==
    CASE c = "0" -> 0 [] c = "1" -> 1 [] c = "2" -> 2 [] c = "3" -> 3
      [] c = "4" -> 4 [] c = "5" -> 5 [] c = "6" -> 6 [] c = "7" -> 7
      [] c = "8" -> 8 [] c = "9" -> 9

\* str.strip() of a text whose only whitespace is the space
RECURSIVE Strip(_)
Strip(t) ==
    IF t = <<>> THEN <<>>
    ELSE IF Head(t) = " " THEN Strip(Tail(t))
    ELSE IF t[Len(t)] = " " THEN Strip(SubSeq(t, 1, Len(t) - 1))
    ELSE t

\* str.replace("R$", ""): every "R$" met from left to right is dropped
RECURSIVE SemCifrao(_)
SemCifrao(t) ==
    IF Len(t) < 2 THEN t
    ELSE IF t[1] = "R" /\ t[2] = "$" THEN SemCifrao(SubSeq(t, 3, Len(t)))
    ELSE <<t[1]>> \o SemCifrao(Tail(t))

NaoEspaco(c) == c # " "

NaoPonto(c) == c # "."

\* str.replace(".", "").replace(",", "."): the thousands separators go and
\* every comma becomes a decimal point
Decimal(t) ==
    LET s == SelectSeq(t, NaoPonto)
    IN  [i \in DOMAIN s |-> IF s[i] = "," THEN "." ELSE s[i]]

\* the number a run of digits writes
RECURSIVE Numero(_)
Numero(ds) ==
    IF ds = <<>> THEN 0
    ELSE 10 * Numero(SubSeq(ds, 1, Len(ds) - 1)) + Digito(ds[Len(ds)])

RECURSIVE Potencia10(_)
Potencia10(n) == IF n = 0 THEN 1 ELSE 10 * Potencia10(n - 1)

SoDigitos(t) == \A i \in DOMAIN t : t[i] \in Digitos

\* the index of the first c of t from i on, 0 when there is none
RECURSIVE Primeiro(_, _, _)
Primeiro(t, c, i) ==
    IF i > Len(t) THEN 0 ELSE IF t[i] = c THEN i ELSE Primeiro(t, c, i + 1)

\* float(t) for a text of digits, signs, points and letters other than those
\* of "e", "inf", "nan" and "_": an optional sign, then digits around at most
\* one point, one digit at least.  The value is in thousandths; the texts
\* carry at most MaxDecimais decimals.
Float(t) ==
    LET sinal == t # <<>> /\ t[1] \in {"+", "-"}
        corpo == IF sinal THEN Tail(t) ELSE t
        p == Primeiro(corpo, ".", 1)
        inteiro == IF p = 0 THEN corpo ELSE SubSeq(corpo, 1, p - 1)
        fracao == IF p = 0 THEN <<>> ELSE SubSeq(corpo, p + 1, Len(corpo))
        bom == /\ SoDigitos(inteiro)
               /\ SoDigitos(fracao)
               /\ Len(inteiro) + Len(fracao) > 0
               /\ Len(fracao) <= MaxDecimais
        modulo == 1000 * Numero(inteiro)
                  + Numero(fracao) * Potencia10(MaxDecimais - Len(fracao))
    IN  IF ~bom THEN [ok |-> FALSE, valor |-> 0]
        ELSE [ok |-> TRUE,
              valor |-> IF sinal /\ t[1] = "-" THEN 0 - modulo ELSE modulo]

\* _parse_valor: erro is "ok", or names the ValueError raised: "informe" for
\* "Informe um valor.", "invalido" for "Valor invalido. Use formato: 2500 ou
\* 2500,50".  The ValueError("O valor deve ser maior que zero.") is raised
\* inside the try block and leaves the function as the "invalido" one.
ParseValor(texto) ==
    LET limpo == Strip(texto)
        t == SelectSeq(SemCifrao(limpo), NaoEspaco)
        f == Float(Decimal(t))
    IN  IF limpo = <<>> \/ t = <<>> THEN [erro |-> "informe", valor |-> 0]
        ELSE IF ~f.ok \/ f.valor <= 0 THEN [erro |-> "invalido", valor |-> 0]
        ELSE [erro |-> "ok", valor |-> f.valor]

\* str.split("/")
RECURSIVE Split(_)
Split(t) ==
    LET b == Primeiro(t, "/", 1)
    IN  IF b = 0 THEN <<t>>
        ELSE <<SubSeq(t, 1, b - 1)>> \o Split(SubSeq(t, b + 1, Len(t)))

\* int(t) for a text of digits, spaces, signs and letters: spaces around the
\* number are dropped, a sign may come first, one digit at least
ParaInt(t) ==
    LET s == Strip(t)
        sinal == s # <<>> /\ s[1] \in {"+", "-"}
        corpo == IF sinal THEN Tail(s) ELSE s
    IN  IF corpo = <<>> \/ ~SoDigitos(corpo) THEN [ok |-> FALSE, valor |-> 0]
        ELSE [ok |-> TRUE,
              valor |-> IF sinal /\ s[1] = "-" THEN 0 - Numero(corpo)
                        ELSE Numero(corpo)]

Bissexto(a) == a % 4 = 0 /\ (a % 100 # 0 \/ a % 400 = 0)

DiasDoMes(a, m) ==
    IF m = 2 THEN (IF Bissexto(a) THEN 29 ELSE 28)
    ELSE IF m \in {4, 6, 9, 11} THEN 30 ELSE 31

\* datetime.date(a, m, d) accepts the date
DataExiste(a, m, d) ==
    /\ a \in 1..9999
    /\ m \in 1..12
    /\ d >= 1
    /\ d <= DiasDoMes(a, m)

\* _parse_data: an empty field stands for the suggested date; otherwise
\* dd/mm/aaaa or dd/mm/aa, a year under 100 counted from 2000.  "ok" or
\* "data_invalida" for "Data invalida. Use dd/mm/aaaa."
ParseData(texto) ==
    LET t == Strip(texto)
        partes == Split(t)
    IN  IF t = <<>> THEN "ok"
        ELSE IF Len(partes) # 3 THEN "data_invalida"
        ELSE LET d == ParaInt(partes[1])
                 m == ParaInt(partes[2])
                 a == ParaInt(partes[3])
                 ano == IF a.valor < 100 THEN 2000 + a.valor ELSE a.valor
             IN  IF d.ok /\ m.ok /\ a.ok /\ DataExiste(ano, m.valor, d.valor)
                 THEN "ok" ELSE "data_invalida"

\* amounts typed into the field: "60,00", "R$ 60,00", "1.000,00", "10,004",
\* "60.00" (the point is dropped: R$ 6.000,00), "", "  ", "R$", "6a", "0",
\* "-60,00", "6,0,0", "R $60", "."
Textos ==
    {<<"6", "0", ",", "0", "0">>,
     <<"R", "$", " ", "6", "0", ",", "0", "0">>,
     <<"1", ".", "0", "0", "0", ",", "0", "0">>,
     <<"1", "0", ",", "0", "0", "4">>,
     <<"6", "0", ".", "0", "0">>,
     <<>>,
     <<" ", " ">>,
     <<"R", "$">>,
     <<"6", "a">>,
     <<"0">>,
     <<"-", "6", "0", ",", "0", "0">>,
     <<"6", ",", "0", ",", "0">>,
     <<"R", " ", "$", "6", "0">>,
     <<".">>}

\* dates typed into the field: "", "31/10/2026", "29/02/24", " 1/ 2/26",
\* "29/02/2023", "31/04/2026", "10/2026", "a/10/2026", "0/1/2026"
Datas ==
    {<<>>,
     <<"3", "1", "/", "1", "0", "/", "2", "0", "2", "6">>,
     <<"2", "9", "/", "0", "2", "/", "2", "4">>,
     <<" ", "1", "/", " ", "2", "/", "2", "6">>,
     <<"2", "9", "/", "0", "2", "/", "2", "0", "2", "3">>,
     <<"3", "1", "/", "0", "4", "/", "2", "0", "2", "6">>,
     <<"1", "0", "/", "2", "0", "2", "6">>,
     <<"a", "/", "1", "0", "/", "2", "0", "2", "6">>,
     <<"0", "/", "1", "/", "2", "0", "2", "6">>}

\* what registrar_pagamento reports of the two fields: "ok" or the error of
\* the first that fails.  calendario is CALENDARIO_DISPONIVEL: with the date
\* picker the date field is not parsed.
Validacao(texto, campo_data, calendario) ==
    IF ParseValor(texto).erro # "ok" THEN ParseValor(texto).erro
    ELSE IF calendario THEN "ok" ELSE ParseData(campo_data)

\* registrar_pagamento that reads the date only after it updated the
\* aggregates: a date that does not parse leaves them changed
RegistrarValidandoDepois(texto, campo_data, calendario, status, res) ==
    IF Validacao(texto, campo_data, calendario) # "ok"
    THEN /\ fase = "pronto"
         /\ res = "ok"
         /\ ui' = Dialogo("registrar", Validacao(texto, campo_data, calendario), 0)
         /\ chamadas' = NenhumaChamada
         /\ limpeza' = SemLimpeza
         /\ IF ParseValor(texto).erro = "ok" /\ ~Quitada(saldo_restante)
            THEN LET c == CalculoDoMes(saldo_restante, taxa,
                                       ParseValor(texto).valor)
                 IN  /\ total_pago' = TotalAposPagamento(total_pago, c.valor)
                     /\ saldo_restante' = c.saldo
            ELSE UNCHANGED <<total_pago, saldo_restante>>
         /\ UNCHANGED <<fase, em_envio, config_local, divida_inicial, taxa, registros,
                        modo_online, servidor, servidor_config, falhas>>
    ELSE RegistrarPagamento(ParseValor(texto).valor, status, res)

\* registrar_pagamento from the texts of the two fields: an error dialog and
\* nothing else when one of them does not parse
RegistrarPagamentoDigitado(texto, campo_data, calendario, status, res) ==
    IF Validacao(texto, campo_data, calendario) # "ok"
    THEN /\ fase = "pronto"
         /\ res = "ok"
         /\ ui' = Dialogo("registrar", Validacao(texto, campo_data, calendario), 0)
         /\ chamadas' = NenhumaChamada
         /\ limpeza' = SemLimpeza
         /\ UNCHANGED <<fase, em_envio, config_local, divida_inicial, taxa, registros,
                        total_pago, saldo_restante, modo_online, servidor,
                        servidor_config, falhas>>
    ELSE RegistrarPagamento(ParseValor(texto).valor, status, res)

----------------------------------------------------------------------------
(* Sessions of startup and payments typed as text, every payment entered   *)
(* as "Pago"; only the probe of the startup may fail                       *)

\* the date picker, or the date field with one of the texts
CamposDeData == {<<TRUE, <<>>>>} \cup {<<FALSE, d>> : d \in Datas}

NextEntrada ==
    \/ \E conecta \in Conexoes : Iniciar(conecta, "ok", "ok")
    \/ \E texto \in Textos, campo \in CamposDeData :
          RegistrarPagamentoDigitado(texto, campo[2], campo[1], "Pago", "ok")

SpecEntrada == Init /\ [][NextEntrada]_vars

----------------------------------------------------------------------------
(* Properties of the ledger *)

\* the entry a payment of valor_pago has just appended to an empty ledger
PrimeiroPagamento(divida, tx, valor_pago) ==
    /\ divida_inicial = divida
    /\ taxa = tx
    /\ ui = Dialogo("registrar", "ok", valor_pago)
    /\ Len(registros) = 1

\* the four figures of a ledger entry
Figuras(reg) ==
    [valor |-> reg.valor, juros |-> reg.juros, amort |-> reg.amort,
     saldo |-> reg.saldo]

\* the local ledger: the entries and both aggregates
Livro ==
    [registros |-> registros, total_pago |-> total_pago,
     saldo_restante |-> saldo_restante]

RECURSIVE SomaValores(_)
SomaValores(regs) ==
    IF regs = <<>> THEN 0 ELSE regs[1].valor + SomaValores(Tail(regs))

\* C1: in every state a session reaches, the balance of every entry and the
\* cached current balance are not negative.
C1_SaldosNaoNegativos ==
    /\ saldo_restante >= 0
    /\ \A i \in DOMAIN registros : registros[i].saldo >= 0

\* C2: the balances of the entries never increase: the first is at most the
\* initial debt and each is at most the one before it, also when a payment is
\* smaller than the interest of its month.
C2_SaldoNaoCrescente ==
    \A i \in DOMAIN registros :
        registros[i].saldo <= IF i = 1 THEN divida_inicial
                              ELSE registros[i - 1].saldo

\* C3: in every entry produced by a payment or by a replay, interest plus
\* amortization is the recorded amount paid, to the centavo, whether or not
\* the overpayment adjustment was applied.
C3_JurosMaisAmortizacao ==
    \A i \in DOMAIN registros :
        registros[i].juros + registros[i].amort = registros[i].valor

\* C4 as the text has it: with a debt of R$ 100,00 at 1% and an empty ledger,
\* a payment of R$ 1.000,00 gives interest 1,00, amortization 99,00, balance
\* 0,00 and recorded amount paid 100,00.
C4_ExemploDoTexto ==
    PrimeiroPagamento(100000, 1, 1000000) =>
        Figuras(registros[1]) =
            [valor |-> 100000, juros |-> 1000, amort |-> 99000, saldo |-> 0]

\* C4 amended: with a debt of R$ 100,00 at 1% and an empty ledger, a payment
\* of R$ 1.000,00 gives interest 1,00, amortization 100,00, balance 0,00 and
\* recorded amount paid 101,00.
C4_ExemploCorrigido ==
    PrimeiroPagamento(100000, 1, 1000000) =>
        Figuras(registros[1]) =
            [valor |-> 101000, juros |-> 1000, amort |-> 100000, saldo |-> 0]

C4_Testemunha == PrimeiroPagamento(100000, 1, 1000000) /\ saldo_restante = 0

\* C5: with a debt of R$ 50.000,00 at 1% and an empty ledger, a payment of
\* R$ 1.000,00 gives interest 500,00, amortization 500,00, balance 49.500,00
\* and the amount paid stays 1.000,00.
C5_ExemploPadrao ==
    PrimeiroPagamento(50000000, 1, 1000000) =>
        Figuras(registros[1]) =
            [valor |-> 1000000, juros |-> 500000, amort |-> 500000,
             saldo |-> 49500000]

C5_Testemunha == PrimeiroPagamento(50000000, 1, 1000000) /\ saldo_restante > 0

\* C6: replaying a ledger that a replay produced (at startup, from the stored
\* amounts, or after an undo) changes no field of any entry and neither
\* aggregate.
C6_RecalculoIdempotente ==
    (fase = "pronto" /\ ui.op \in {"iniciar", "desfazer"}) =>
        Recalcular(registros, divida_inicial, taxa) = Livro

\* C7: after payments appended one by one, replaying the stored entries from
\* the initial debt leaves every entry and both aggregates as the payments
\* left them.
C7_IncrementalIgualAoReplay ==
    ui.op = "registrar" => Recalcular(registros, divida_inicial, taxa) = Livro

\* C8: undoing the last entry leaves the local ledger as the replay of the
\* other entries from the initial debt gives it, whether the DELETE succeeds,
\* fails or is not sent.
C8_DesfazerIgualAoRecalculo ==
    [][(ui'.op = "desfazer" /\ registros # <<>>) =>
          LET r == Recalcular(SubSeq(registros, 1, Len(registros) - 1),
                              divida_inicial, taxa)
          IN  /\ registros' = r.registros
              /\ total_pago' = r.total_pago
              /\ saldo_restante' = r.saldo_restante]_vars

\* an undo whose DELETE failed, leaving entries behind
C8_Testemunha ==
    /\ ui = Dialogo("desfazer", "aviso", 0)
    /\ registros # <<>>
    /\ chamadas.DELETE >= 1

\* C9: with the balance at zero, a payment attempt appends no entry, changes
\* neither aggregate and sends no POST.
C9_QuitadaNaoRegistra ==
    [][(saldo_restante = 0 /\ ui'.op = "registrar") =>
          /\ registros' = registros
          /\ total_pago' = total_pago
          /\ saldo_restante' = saldo_restante
          /\ servidor' = servidor
          /\ chamadas'.POST = 0]_vars

\* a payment attempt refused in a connected session with a settled debt
C9_Testemunha ==
    /\ ui.op = "registrar"
    /\ ui.msg = "quitada"
    /\ modo_online
    /\ registros # <<>>
    /\ saldo_restante = 0

\* C10: between handler runs, total_pago is the sum of the amounts of the
\* entries and saldo_restante is the balance of the last entry, or the
\* initial debt when there is none.
C10_AgregadosIguaisAoFold ==
    fase = "pronto" =>
        /\ total_pago = SomaValores(registros)
        /\ saldo_restante = IF registros = <<>> THEN divida_inicial
                            ELSE registros[Len(registros)].saldo

----------------------------------------------------------------------------
(* Properties of the synchronisation with the record store *)

\* C11: when the POST of a payment of a connected session ends with the store
\* closing the connection (the failure delete_registro retries) and the store
\* would accept the next attempt, the create is sent again and the appended
\* entry carries the id the store assigns.
C11_CriacaoRepetida ==
    [][\A valor_pago \in Valores, status \in StatusSet :
          (/\ modo_online
           /\ ~Quitada(saldo_restante)
           /\ RegistrarPagamento(valor_pago, status, "fechou"))
          => /\ registros'[Len(registros')].server_id = NovoId(servidor)
             /\ chamadas'.POST >= 2]_vars

\* C12: when the POST of a payment of a connected session fails, the entry is
\* appended all the same, without an id; total_pago and saldo_restante take the
\* payment; the store is left as it was; and the handler shows a warning, not
\* an error.
C12_FalhaNaoDesfazPagamento ==
    [][\A valor_pago \in Valores, status \in StatusSet, res \in Falhas :
          (/\ modo_online
           /\ ~Quitada(saldo_restante)
           /\ RegistrarPagamento(valor_pago, status, res))
          => LET n == Len(registros')
                 c == CalculoDoMes(saldo_restante, taxa, valor_pago)
             IN  /\ n = Len(registros) + 1
                 /\ SubSeq(registros', 1, n - 1) = registros
                 /\ Figuras(registros'[n]) = c
                 /\ registros'[n].server_id = SemId
                 /\ total_pago' = TotalAposPagamento(total_pago, registros'[n].valor)
                 /\ saldo_restante' = registros'[n].saldo
                 /\ servidor' = servidor
                 /\ ui'.msg = "aviso"]_vars

\* a payment whose POST failed, appended after one that the store holds
C12_Testemunha ==
    /\ ui.op = "registrar"
    /\ ui.msg = "aviso"
    /\ modo_online
    /\ Len(registros) >= 2
    /\ registros[Len(registros) - 1].server_id # SemId
    /\ registros[Len(registros)].server_id = SemId
    /\ Len(servidor) < Len(registros)

\* C13: a clearing of the history that lists N >= 1 records and whose deletes
\* all fail ends in an error and leaves the entries, total_pago and
\* saldo_restante as they were.
C13_FalhaTotalNaoLimpa ==
    [][(/\ ui'.op = "limpar"
        /\ limpeza'.total >= 1
        /\ limpeza'.erros = limpeza'.total)
       => /\ registros' = registros
          /\ total_pago' = total_pago
          /\ saldo_restante' = saldo_restante
          /\ ui'.msg \in {"erro", "erro_conexao"}]_vars

\* a clearing that failed as a whole after a delete request for each of two
\* or more records, the ledger not being empty
C13_Testemunha ==
    /\ ui.op = "limpar"
    /\ limpeza.erros = limpeza.total
    /\ ui.msg \in {"erro", "erro_conexao"}
    /\ chamadas.DELETE >= 2
    /\ Len(servidor) >= 2
    /\ registros # <<>>
    /\ total_pago > 0

\* the last handler was a clearing of the history whose delete_todos_registros
\* listed N records and counted k failed deletes, 0 < k < N
LimpezaParcial ==
    /\ ui.op = "limpar"
    /\ 0 < limpeza.erros
    /\ limpeza.erros < limpeza.total

\* C14: after a clearing of the history that lists N records of which k fail
\* to be deleted, 0 < k < N, the ledger is empty: no entry, total_pago 0 and
\* saldo_restante the initial debt.
C14_FalhaParcialLimpa ==
    LimpezaParcial =>
        /\ registros = <<>>
        /\ total_pago = 0
        /\ saldo_restante = divida_inicial

\* a clearing that listed three or more records, failed to delete some of
\* them, which the store still holds, and left the ledger empty
C14_Testemunha ==
    /\ LimpezaParcial
    /\ limpeza.total >= 3
    /\ registros = <<>>
    /\ servidor # <<>>
    /\ chamadas.DELETE >= Len(servidor) + 2

\* C15: a clearing of the history that lists N records of which k fail to be
\* deleted, 0 < k < N, tells the user so: its dialog is not the "Sucesso" one
\* of a clearing whose deletes all succeeded.
C15_FalhaParcialAvisa == LimpezaParcial => ui.msg # "sucesso"

\* C16: a clearing of the history asked for in an offline session, or whose
\* probe of the store fails, sends no request besides that probe (no listing,
\* no delete), leaves the store, the entries and both aggregates as they were,
\* and leaves the session offline.
C16_LimparSoConectado ==
    [][(/\ ui'.op = "limpar"
        /\ \/ ~modo_online
           \/ LimparHistorico(FALSE, "ok", PlanoSemFalha(servidor)))
       => /\ chamadas'.DELETE = 0
          /\ chamadas'.GET = (IF modo_online THEN 1 ELSE 0)
          /\ servidor' = servidor
          /\ registros' = registros
          /\ total_pago' = total_pago
          /\ saldo_restante' = saldo_restante
          /\ modo_online' = FALSE]_vars

\* a clearing refused because the probe failed, with entries in the ledger and
\* records in the store
C16_Testemunha ==
    /\ ui = Dialogo("limpar", "indisponivel", 0)
    /\ ~modo_online
    /\ chamadas.GET = 1
    /\ Len(registros) >= 2
    /\ Len(servidor) >= 2

\* C17: right after startup, either the session is connected and the ledger
\* has one entry for each record of the store, in ascending id order, or the
\* session is offline and the ledger is empty, total_pago 0 and saldo_restante
\* the initial debt -- also when a record that cannot be converted comes
\* after records that were.
C17_CargaTudoOuNada ==
    ui.op = "iniciar" =>
        IF modo_online
        THEN LET lista == OrdenarPorId(servidor)
             IN  /\ Len(registros) = Len(lista)
                 /\ \A i \in DOMAIN registros :
                        /\ registros[i].server_id = lista[i].id
                        /\ registros[i].status = lista[i].status
                 /\ Recalcular(registros, divida_inicial, taxa) = Livro
        ELSE /\ registros = <<>>
             /\ total_pago = 0
             /\ saldo_restante = divida_inicial

\* the store srv with the mes, juros, amort and saldo of every record blanked
Apagado(srv) ==
    [k \in DOMAIN srv |->
        [srv[k] EXCEPT !.mes = Zerado.mes, !.juros = Zerado.juros,
                       !.amort = Zerado.amort, !.saldo = Zerado.saldo]]

\* C18: the ledger and the aggregates a startup leaves are those the same
\* startup leaves on the store whose records have their mes, juros, amort and
\* saldo blanked: they depend on the debt, the rate and the stored amounts in
\* ascending id order only.
C18_CargaIgnoraDerivados ==
    [][\A conecta \in BOOLEAN, res_config, res_lista \in Resultados :
          Iniciar(conecta, res_config, res_lista)
          => LET cfg == [divida_inicial |-> divida_inicial', taxa |-> taxa']
                 outro == CarregarRegistrosIniciais(Apagado(servidor), cfg,
                                                    conecta, res_lista)
             IN  /\ registros' = outro.registros
                 /\ total_pago' = outro.total_pago
                 /\ saldo_restante' = outro.saldo_restante]_vars

\* C19: a DELETE that the store answers with 404 because the record is already
\* gone (removed before, or removed by an attempt whose answer was lost) counts
\* as done: an undo whose DELETE ends so shows no warning, and a clearing of
\* the history whose deletes all end so is a clearing without failures.
C19_ApagadoContaComoFeito ==
    [][/\ \A roteiro \in {<<"ok">>, <<"perdeu", "ok">>} :
             (/\ registros # <<>>
              /\ modo_online
              /\ registros[Len(registros)].server_id # SemId
              /\ roteiro = <<"ok">>
                    => registros[Len(registros)].server_id \notin Ids(servidor)
              /\ DesfazerUltimo(roteiro))
             => ui'.msg = "ok"
       /\ (/\ modo_online
           /\ servidor # <<>>
           /\ LimparHistorico(TRUE, "ok",
                              [i \in Ids(servidor) |-> <<"perdeu", "ok">>]))
          => /\ ui'.msg = "sucesso"
             /\ registros' = <<>>]_vars

\* C20: when the POST of a payment of a connected session fails, the session
\* goes offline: modo_online is FALSE after the handler.
C20_FalhaDesconecta ==
    [][\A valor_pago \in Valores, status \in StatusSet, res \in Falhas :
          (/\ modo_online
           /\ ~Quitada(saldo_restante)
           /\ RegistrarPagamento(valor_pago, status, res))
          => modo_online' = FALSE]_vars

\* C21: after a startup whose probe failed, or whose store holds no /config
\* record, the debt and the rate of the session are those of config.json.
C21_ConfigLocalSemRemota ==
    (/\ ui.op = "iniciar"
     /\ chamadas.GET = 1 \/ servidor_config = SemConfig)
    => /\ divida_inicial = config_local.divida_inicial
       /\ taxa = config_local.taxa


\* the dialogs with which registrar_pagamento refuses the text of a field
ErrosDeEntrada == {"informe", "invalido", "data_invalida"}

\* C22: a payment whose amount or date does not parse leaves the entries, the
\* total paid, the balance and the connection mode as they were and sends no
\* request to the store.
C22_EntradaInvalidaNadaMuda ==
    [][(ui'.op = "registrar" /\ ui'.msg \in ErrosDeEntrada)
       => /\ UNCHANGED <<registros, total_pago, saldo_restante, modo_online,
                         servidor>>
          /\ chamadas' = NenhumaChamada]_vars

\* a date refused while connected, payments already in the ledger
C22_Testemunha ==
    /\ ui = Dialogo("registrar", "data_invalida", 0)
    /\ modo_online
    /\ registros # <<>>
    /\ saldo_restante > 0

\* the text of the amount field as float() receives it
Limpo(texto) == Decimal(SelectSeq(SemCifrao(Strip(texto)), NaoEspaco))

\* a text that writes a number, zero or negative
NaoPositivo(texto) == Float(Limpo(texto)).ok /\ Float(Limpo(texto)).valor <= 0

\* a text that is not empty once "R$" and the spaces are taken out, and
\* writes no number
Malformado(texto) ==
    /\ SelectSeq(SemCifrao(Strip(texto)), NaoEspaco) # <<>>
    /\ ~Float(Limpo(texto)).ok

\* C23: a payment whose amount text writes zero or a negative number is
\* refused with an error that no malformed amount text is refused with.
C23_NaoPositivoDistinto ==
    [][\A texto \in Textos, campo \in CamposDeData :
          (/\ NaoPositivo(texto)
           /\ RegistrarPagamentoDigitado(texto, campo[2], campo[1], "Pago", "ok"))
          => /\ ui'.msg \in ErrosDeEntrada
             /\ \A t \in Textos : Malformado(t) => ParseValor(t).erro # ui'.msg]_vars

\* C24: changing the status of the selected entry swaps "Pago" and "Pendente"
\* in that entry and leaves its other fields, the other entries, the total
\* paid, the balance and the connection mode as they were, whether the PATCH
\* succeeded, failed or was not sent.
C24_AlternarSoMudaStatus ==
    [][\A idx \in DOMAIN registros, res \in Possiveis :
          AlternarStatus(idx, res)
          => /\ registros' = [registros EXCEPT
                                ![idx].status = Alternado(registros[idx].status)]
             /\ registros'[idx].status # registros[idx].status
             /\ UNCHANGED <<total_pago, saldo_restante, modo_online>>]_vars

\* a status changed in the ledger after its PATCH failed
C24_Testemunha ==
    /\ ui = Dialogo("alternar", "aviso", 0)
    /\ chamadas.PATCH = 1
    /\ modo_online
    /\ \E i \in DOMAIN registros :
          /\ registros[i].server_id # SemId
          /\ \E k \in DOMAIN servidor :
                /\ servidor[k].id = registros[i].server_id
                /\ servidor[k].status # registros[i].status

\* C25: between operations the entries of the ledger are numbered 1, 2, ..., n
\* in their order, whatever mes the records of the store carry.
C25_MesesDensos ==
    \A i \in DOMAIN registros : registros[i].mes = i

\* C26: when registrar_pagamento is about to send its POST, the new entry is
\* already the last of the ledger and both aggregates already count it.
C26_EntradaAntesDoPost ==
    fase = "salvando"
    => /\ saldo_restante = em_envio[1].saldo
       /\ registros # <<>>
       /\ Figuras(registros[Len(registros)]) = Figuras(em_envio[1])
       /\ registros[Len(registros)].mes = em_envio[1].mes

\* C27: the DELETE of an undo is attempted at most MAX_RETRIES times; an
\* attempt follows another only when that one ended with the connection
\* closed; a failure of another kind ends the call with an error after that
\* attempt, and so does the MAX_RETRIES-th closed connection.
C27_DeleteTermina ==
    [][\A roteiro \in RoteirosInteiros :
          (/\ ui'.op = "desfazer"
           /\ modo_online
           /\ registros # <<>>
           /\ registros[Len(registros)].server_id # SemId
           /\ DesfazerUltimo(roteiro))
          => LET n == chamadas'.DELETE
             IN  /\ n \in 1..MAX_RETRIES
                 /\ \A k \in 1..(n - 1) : Fechada(roteiro[k])
                 /\ n < Len(roteiro) => ~Fechada(roteiro[n])
                 /\ roteiro[n] # "ok" => ui'.msg = "aviso"]_vars

\* an undo that gave up after MAX_RETRIES closed connections
C27_Testemunha ==
    /\ ui = Dialogo("desfazer", "aviso", 0)
    /\ chamadas.DELETE = MAX_RETRIES

\* limpar_historico listed the records of the store and went through them
Listou ==
    /\ ui.op = "limpar"
    /\ chamadas.GET = 2
    /\ ui.msg = "sucesso" \/ limpeza.total > 0

\* C28: a bulk deletion sends a DELETE for every record it listed, however
\* many of the earlier ones failed: no record is left in the store but those
\* whose delete failed, and for N listed records there are at least N and at
\* most N x MAX_RETRIES attempts.
C28_DeleteTodosPercorreTudo ==
    Listou => /\ chamadas.DELETE >= limpeza.total
              /\ chamadas.DELETE <= limpeza.total * MAX_RETRIES
              /\ Len(servidor) <= limpeza.erros

\* the first listed record survived its failed delete and the later ones
\* were deleted
C28_Testemunha ==
    /\ Listou
    /\ limpeza.total >= 2
    /\ limpeza.erros = 1
    /\ Len(servidor) = 1
    /\ servidor[1].id = 1

\* C29: an operation run while connected on a ledger that is not empty, whose
\* bulk deletion listed records and deleted none of them, leaves the entries
\* and both aggregates as they were; so for reiniciar as for limpar_historico.
C29_FalhaTotalNaoEsvazia ==
    [][(/\ modo_online
        /\ registros # <<>>
        /\ limpeza'.total > 0
        /\ limpeza'.erros = limpeza'.total)
       => UNCHANGED <<registros, total_pago, saldo_restante>>]_vars

\* paying valor on saldo_anterior and its interest would leave less than zero
Estoura(saldo_anterior, tx, valor) ==
    saldo_anterior + Juros(saldo_anterior, tx) - valor < 0

\* the entry settles saldo_anterior: nothing is left, all of it is amortized
\* and the amount recorded is saldo_anterior and its interest
Quita(reg, saldo_anterior, tx) ==
    /\ reg.saldo = 0
    /\ reg.amort = saldo_anterior
    /\ reg.valor = saldo_anterior + Juros(saldo_anterior, tx)

\* the balance before entry i of the ledger
SaldoAntes(i) == IF i = 1 THEN divida_inicial ELSE registros[i - 1].saldo

\* every entry replayed from a stored amount that overshoots settles the
\* balance before it; entry i is replayed from record i of the store in the
\* order of the ids
QuitaNoRecalculo ==
    \A i \in DOMAIN registros :
        Estoura(SaldoAntes(i), taxa, OrdenarPorId(servidor)[i].valor)
        => Quita(registros[i], SaldoAntes(i), taxa)

\* C30: a payment that would leave less than zero is entered with balance 0,
\* amortization equal to the balance before it and amount paid equal to that
\* balance and its interest, and the total paid grows by the amount entered,
\* not by the amount typed; a replay at startup enters such a stored amount
\* in the same way.
C30_AjusteDeQuitacao ==
    [][/\ (/\ ui'.op = "registrar"
           /\ ui'.msg = "ok"
           /\ Estoura(saldo_restante, taxa, ui'.valor))
          => /\ Quita(registros'[Len(registros')], saldo_restante, taxa)
             /\ saldo_restante' = 0
             /\ total_pago' = total_pago + registros'[Len(registros')].valor
       /\ ui'.op = "iniciar" => QuitaNoRecalculo']_vars

----------------------------------------------------------------------------
(* Properties of the connection mode *)

\* C31: once ControleDividaApp.__init__ has run, a session that is offline
\* stays offline: no handler sets modo_online back to TRUE.
C31_OfflineParaSempre ==
    [][(fase # "novo" /\ ~modo_online) => ~modo_online']_vars

\* a session that started connected and went offline in limpar_historico
C31_Testemunha ==
    /\ ui.op = "limpar"
    /\ ui.msg \in {"indisponivel", "erro_conexao"}
    /\ ~modo_online
    /\ registros # <<>>

\* C32: a handler run while the session is offline sends no POST, no PATCH and
\* no DELETE, whatever server_id the entries carry, and leaves the store as
\* it was; and an entry of the ledger without server_id never gets one.
C32_OfflineNaoEscreve ==
    [][/\ (fase = "pronto" /\ ~modo_online)
          => /\ chamadas'.POST = 0
             /\ chamadas'.PATCH = 0
             /\ chamadas'.DELETE = 0
             /\ servidor' = servidor
       /\ fase = "pronto"
          => \A i \in DOMAIN registros \cap DOMAIN registros' :
                registros[i].server_id = SemId
                => registros'[i].server_id = SemId]_vars

\* the two records of the store were loaded, the session went offline and the
\* entry of record 2 was undone: the record is still in the store
C32_Testemunha ==
    /\ ui = Dialogo("desfazer", "ok", 0)
    /\ ~modo_online
    /\ chamadas.DELETE = 0
    /\ falhas = 1
    /\ Len(registros) = 1
    /\ registros[1].server_id = 1
    /\ Len(servidor) = 2
    /\ servidor[2].legivel

----------------------------------------------------------------------------
(* The ledger against the store *)

\* the local entries that stand for the record r of the store
EntradasDe(r) == {i \in DOMAIN registros : registros[i].server_id = r.id}

\* ledger and store hold the same payments: every entry has a server_id, the
\* ids of the store are the server_ids of the ledger, and a record has the
\* valor and the status of its entry
Acordo ==
    /\ \A i \in DOMAIN registros : registros[i].server_id # SemId
    /\ Ids(servidor) = {registros[i].server_id : i \in DOMAIN registros}
    /\ \A k \in DOMAIN servidor : \A i \in EntradasDe(servidor[k]) :
          /\ servidor[k].valor = registros[i].valor
          /\ servidor[k].status = registros[i].status

\* C33: in a session that started online, loaded the store and met no failing
\* request, ledger and store agree after every handler.
C33_AcordoSemFalhas ==
    (fase = "pronto" /\ modo_online /\ falhas = 0) => Acordo

====
